---- MODULE Spec2Model ----
(***************************************************************************)
(* Brace-balance scripts of the Planwise repository.                       *)
(*                                                                         *)
(* One script runs per behaviour (prog).  The character scanner            *)
(* find_brace_mismatches reads its input one character per step; the input *)
(* is produced as it is read: cur is line[i] and each step draws line[i+1] *)
(* (or the end of the line), which is the one character of lookahead the   *)
(* scanner's `//` test uses.  Lines are modelled without their trailing    *)
(* newline, a character the scanner treats like any other ordinary one.    *)
(*                                                                         *)
(* The line-by-line scripts (analyze_structure, find_extra_braces,         *)
(* check_class_closure, find_class_end, analyze_nesting,                   *)
(* check_function_scope) read one line per step.  Their                    *)
(* tests see a line only through LineFacts; a step of analyze_structure,   *)
(* check_class_closure or find_class_end draws the facts of some line of   *)
(* its input set.  pc is "scan" while lines are read and "done" at the     *)
(* end; "skip" is the rest of a line after the scanner's `break`, "trail"  *)
(* the lines check_class_closure looks at after the class closed, "look"   *)
(* the look-ahead of find_class_end, "ended" find_class_end after its      *)
(* `break`, "crashed" its IndexError.                                      *)
(*                                                                         *)
(* ref is a history variable: the lexical classifier and brace matcher of  *)
(* spec.md (sections 4.1, 4.2) run over the same characters, so that       *)
(* "inside a string", "inside a comment" and "unmatched" have a meaning    *)
(* that does not depend on the scripts.  last (what the line a script has  *)
(* just read holds) and depths (the depth after each line read) are        *)
(* history variables too.                                                  *)
(***************************************************************************)
EXTENDS Integers, Sequences, FiniteSets, TLC

VARIABLES prog, shape, text, pc, ref,
          \* find_brace_mismatches
          line_num, i, cur, in_string, escaped, brace_stack, errors, report,
          \* the line-by-line scripts
          lines_read, depth, out, last, depths,
          \* analyze_structure
          brace_count, function_stack, issues, closed,
          \* check_class_closure
          class_started, class_line, trail,
          \* find_class_end
          class_start_line, class_start_depth, ahead, eof, looked,
          \* analyze_nesting
          function_starts,
          \* check_function_scope
          create_event_line, find_best_line, class_start, class_end, initial_depth,
          first_back

scanVars == <<line_num, i, cur, in_string, escaped, brace_stack, errors, report>>
lineVars == <<lines_read, depth, out, last, depths>>
structVars == <<brace_count, function_stack, issues, closed>>
closureVars == <<class_started, class_line, trail>>
classEndVars == <<class_start_line, class_start_depth, ahead, eof, looked>>
scopeVars == <<create_event_line, find_best_line, class_start, class_end,
               initial_depth, first_back>>
vars == <<prog, shape, text, pc, ref, scanVars, lineVars, structVars, closureVars,
          classEndVars, function_starts, scopeVars>>

\* ------------------------------------------------------------- bounds
MaxLines == 2
MaxLineLen == 3
MaxDepth == 2
MaxErrors == 1
DeepLen == 11
MaxTextLines == 2
MaxTextLineLen == 4
MaxClassLines == 3
MaxClassLineLen == 3
MaxWindowLines == 13
MaxNestLines == 4
MaxIssueLines == 11
MaxScopeLines == 13

Min(a, b) == IF a < b THEN a ELSE b

\* ------------------------------------------------------------- characters
LBRACE == "{"
RBRACE == "}"
QUOTE == "\""
BACKSLASH == "\\"
SLASH == "/"
STAR == "*"
LETTER == "x"
SPACE == " "
APOS == "'"
\* An occurrence of `func f`: the keyword, white space and an identifier.
FUNC == "func f"
CREATE == "private func createEvent() async"
BEST == "private func findBestMatchingCategory"
\* An occurrence of `class ChatViewModel`.
CLASS == "class ChatViewModel"
EOL == "EOL"

Alphabet == {LBRACE, RBRACE, QUOTE, BACKSLASH, SLASH, STAR, LETTER}
BraceAlphabet == {LBRACE, RBRACE}

\* The characters the input may hold at column k of a line (EOL: the line ends).
Lookahead(k) ==
    CASE shape = "mixed" -> (IF k < MaxLineLen THEN Alphabet ELSE {}) \cup {EOL}
      [] shape = "line" -> {IF k < Len(text) THEN text[k + 1] ELSE EOL}
      [] OTHER -> (IF k < DeepLen THEN BraceAlphabet ELSE {}) \cup {EOL}

LineLimit == IF shape = "mixed" THEN MaxLines ELSE 1
DepthLimit ==
    CASE shape = "mixed" -> MaxDepth
      [] shape = "line" -> MaxTextLineLen
      [] OTHER -> DeepLen

\* ------------------------------------------------------------- reference classifier
\* spec.md 4.1: the state a character is classified in, and the state after it.
\* st is Code, Str, LineC or BlockC; pend marks a character already claimed by the
\* one before it: "esc" (Escaped), "open" (second character of the block-comment
\* opener), "close" (second character of the block-comment terminator).
RefInit == [st |-> "Code", pend |-> ""]

RefStep(r, c, n) ==
    IF r.pend = "esc" THEN [r EXCEPT !.pend = ""]
    ELSE IF r.pend = "open" THEN [r EXCEPT !.pend = ""]
    ELSE IF r.pend = "close" THEN [st |-> "Code", pend |-> ""]
    ELSE IF c = BACKSLASH /\ r.st = "Str" THEN [r EXCEPT !.pend = "esc"]
    ELSE IF r.st = "LineC" THEN r
    ELSE IF r.st = "BlockC"
         THEN (IF c = STAR /\ n = SLASH THEN [r EXCEPT !.pend = "close"] ELSE r)
    ELSE IF r.st = "Str"
         THEN (IF c = QUOTE THEN [r EXCEPT !.st = "Code"] ELSE r)
    ELSE IF c = SLASH /\ n = SLASH THEN [r EXCEPT !.st = "LineC"]
    ELSE IF c = SLASH /\ n = STAR THEN [st |-> "BlockC", pend |-> "open"]
    ELSE IF c = QUOTE THEN [r EXCEPT !.st = "Str"]
    ELSE r

\* A character is structurally significant when it is classified Code.
RefIsCode(r) == r.st = "Code" /\ r.pend = ""

\* At the end of a line: a line comment ends, an escape consumes the newline;
\* a string literal or a block comment carries over.
RefEndLine(r) ==
    [st |-> IF r.st = "LineC" THEN "Code" ELSE r.st, pend |-> ""]

\* spec.md 4.2 observe(): push on a significant opening brace, pop on a significant
\* closing one, record the position of a closing brace met on an empty stack.
\* g is [lex, stack, extra]: the classifier's state, the open braces, the unmatched
\* closing braces.
GhostInit == [lex |-> RefInit, stack |-> <<>>, extra |-> <<>>]

GhostObserve(g, c, n, pos) ==
    LET code == RefIsCode(g.lex)
    IN  [lex |-> RefStep(g.lex, c, n),
         stack |-> IF code /\ c = LBRACE THEN Append(g.stack, pos)
                   ELSE IF code /\ c = RBRACE /\ g.stack # <<>>
                        THEN SubSeq(g.stack, 1, Len(g.stack) - 1)
                   ELSE g.stack,
         extra |-> IF code /\ c = RBRACE /\ g.stack = <<>>
                   THEN Append(g.extra, pos) ELSE g.extra]

GhostEndLine(g) == [g EXCEPT !.lex = RefEndLine(g.lex)]

\* The input is bounded: at most DepthLimit open braces, MaxErrors unmatched ones.
GhostWithin(g) == Len(g.stack) <= DepthLimit /\ Len(g.extra) <= MaxErrors

\* ------------------------------------------------------------- find_brace_mismatches
FBM == "find_brace_mismatches"

\* in_comment is set at the start of every line and never assigned again.
in_comment == FALSE

ShowLast == 10

\* line[i] == '{' outside a string: the position is pushed.
\* line[i] == '}' outside a string: pop, or report the line when nothing is open.
\* A stack that grows at its bottom.
StackAfterPushedBelow(stack, c, ln, col) ==
    IF c = LBRACE THEN <<(<<ln, col>>)>> \o stack
    ELSE IF c = RBRACE /\ stack # <<>> THEN SubSeq(stack, 1, Len(stack) - 1)
    ELSE stack

StackAfter(stack, c, ln, col) ==
    IF c = LBRACE THEN Append(stack, <<ln, col>>)
    ELSE IF c = RBRACE /\ stack # <<>> THEN SubSeq(stack, 1, Len(stack) - 1)
    ELSE stack

ErrorsAfter(errs, stack, c, ln) ==
    IF c = RBRACE /\ stack = <<>> THEN Append(errs, ln) ELSE errs

\* The last n entries of a sequence, in the sequence's order (s[-n:]).
LastN(s, n) == IF Len(s) <= n THEN s ELSE SubSeq(s, Len(s) - n + 1, Len(s))

\* A listing that starts from the most recently opened brace.
UnclosedListingInnermostFirst(stack) ==
    LET shown == LastN(stack, ShowLast)
    IN  [k \in 1..Len(shown) |-> shown[Len(shown) - k + 1]]

\* The "Line n:" listing printed for the unclosed braces.
UnclosedListing(stack) == LastN(stack, ShowLast)

\* One iteration of the while loop over the characters of a line.
ScanChar ==
    /\ prog = FBM /\ pc = "scan" /\ cur # EOL
    /\ \E nx \in Lookahead(i + 1) :
        /\ ref' = GhostObserve(ref, cur, nx, <<line_num, i>>)
        /\ GhostWithin(ref')
        /\ IF escaped
           THEN /\ escaped' = FALSE
                /\ pc' = pc
                /\ UNCHANGED <<in_string, brace_stack, errors>>
           ELSE IF cur = BACKSLASH
           THEN /\ escaped' = TRUE
                /\ pc' = pc
                /\ UNCHANGED <<in_string, brace_stack, errors>>
           ELSE IF nx # EOL /\ cur = SLASH /\ nx = SLASH
           THEN /\ pc' = "skip"
                /\ UNCHANGED <<escaped, in_string, brace_stack, errors>>
           ELSE LET s == IF cur = QUOTE THEN ~in_string ELSE in_string
                    counted == ~s /\ ~in_comment
                IN  /\ in_string' = s
                    /\ pc' = pc
                    /\ (counted /\ cur = LBRACE) => Len(brace_stack) < DepthLimit
                    /\ (counted /\ cur = RBRACE /\ brace_stack = <<>>)
                          => Len(errors) < MaxErrors
                    /\ brace_stack' = IF counted
                                      THEN StackAfter(brace_stack, cur, line_num, i)
                                      ELSE brace_stack
                    /\ errors' = IF counted
                                 THEN ErrorsAfter(errors, brace_stack, cur, line_num)
                                 ELSE errors
                    /\ UNCHANGED escaped
        /\ i' = i + 1
        /\ cur' = nx
    /\ UNCHANGED <<prog, shape, text, line_num, report, lineVars, structVars, closureVars,
                   classEndVars, function_starts, scopeVars>>

\* After `break` the scanner reads nothing more of the line; what is left of it is
\* seen by the reference classifier alone.
SkipChar ==
    /\ prog = FBM /\ pc = "skip" /\ cur # EOL
    /\ \E nx \in Lookahead(i + 1) :
        /\ ref' = GhostObserve(ref, cur, nx, <<line_num, i>>)
        /\ GhostWithin(ref')
        /\ i' = i + 1
        /\ cur' = nx
    /\ UNCHANGED <<prog, shape, text, pc, line_num, in_string, escaped,
                   brace_stack, errors, report, lineVars, structVars, closureVars,
                   classEndVars, function_starts, scopeVars>>

\* The next iteration of the for loop: the flags are reset for every line.
NextLine ==
    /\ prog = FBM /\ pc \in {"scan", "skip"} /\ cur = EOL
    /\ line_num < LineLimit
    /\ \E c \in Lookahead(0) :
        /\ cur' = c
    /\ line_num' = line_num + 1
    /\ i' = 0
    /\ in_string' = FALSE
    /\ escaped' = FALSE
    /\ pc' = "scan"
    /\ ref' = (IF line_num = 0 THEN ref ELSE GhostEndLine(ref))
    /\ UNCHANGED <<prog, shape, text, brace_stack, errors, report, lineVars, structVars,
                   closureVars, classEndVars, function_starts, scopeVars>>

\* End of input: the unclosed braces are listed.
Finish ==
    /\ prog = FBM /\ pc \in {"scan", "skip"} /\ cur = EOL
    /\ pc' = "done"
    /\ report' = UnclosedListing(brace_stack)
    /\ ref' = (IF line_num = 0 THEN ref ELSE GhostEndLine(ref))
    /\ UNCHANGED <<prog, shape, text, line_num, i, cur, in_string, escaped,
                   brace_stack, errors, lineVars, structVars, closureVars, classEndVars,
                   function_starts, scopeVars>>

\* ------------------------------------------------------------- lines of text
\* The line-by-line scripts read one whole line per step.  A line is a sequence of
\* characters and of the two keyword occurrences FUNC and CLASS; each script is
\* given the characters its tests tell apart.
LinesOver(alphabet) == UNION {[1..n -> alphabet] : n \in 0..MaxTextLineLen}
ShortLinesOver(alphabet) == UNION {[1..n -> alphabet] : n \in 0..MaxClassLineLen}

\* re.sub(q + '[^' + q + ']*' + q, q + q, line): every leftmost, non-overlapping
\* run from one q to the next q is replaced by the empty literal q q; a q with no
\* q after it is left where it is.
RECURSIVE StripFrom(_, _, _)
StripFrom(line, p, q) ==
    IF p > Len(line) THEN <<>>
    ELSE IF line[p] = q /\ \E r \in (p + 1)..Len(line) : line[r] = q
         THEN LET r == CHOOSE k \in (p + 1)..Len(line) :
                          /\ line[k] = q
                          /\ \A m \in (p + 1)..(k - 1) : line[m] # q
              IN  <<q, q>> \o StripFrom(line, r + 1, q)
         ELSE <<line[p]>> \o StripFrom(line, p + 1, q)

\* The literals are left in the line.
StripLiteralsKept(line, q) == line

StripLiterals(line, q) == StripFrom(line, 1, q)

\* str.count(c)
Count(line, c) == Cardinality({k \in 1..Len(line) : line[k] = c})

\* clean_line.count('{') - clean_line.count('}') after the double-quoted literals
\* are stripped.
NetBraces(line) ==
    LET clean_line == StripLiterals(line, QUOTE)
    IN  Count(clean_line, LBRACE) - Count(clean_line, RBRACE)

\* line.strip(): leading and trailing white space removed.
RECURSIVE LStrip(_)
LStrip(line) ==
    IF line # <<>> /\ Head(line) = SPACE THEN LStrip(Tail(line)) ELSE line

RECURSIVE RStrip(_)
RStrip(line) ==
    IF line # <<>> /\ line[Len(line)] = SPACE
    THEN RStrip(SubSeq(line, 1, Len(line) - 1)) ELSE line

Strip(line) == RStrip(LStrip(line))

\* line.strip().startswith('//')
IsCommentLine(line) ==
    LET t == Strip(line) IN Len(t) >= 2 /\ t[1] = SLASH /\ t[2] = SLASH

\* The occurrences that hold `func`, white space and an identifier.
FuncOccurrences == {FUNC, CREATE, BEST}

\* re.search(r'(private |public |internal )?\s*func\s+(\w+)', line), 'func ' in line
HasFunc(line) == \E k \in 1..Len(line) : line[k] \in FuncOccurrences

\* The word characters a character or an occurrence begins with; every
\* occurrence goes on with white space after them.
WordHead(c) ==
    CASE c = LETTER -> LETTER
      [] c = FUNC -> "func"
      [] c = CLASS -> "class"
      [] c \in {CREATE, BEST} -> "private"
      [] OTHER -> ""

\* The \w+ the expression takes from position p on: the word characters up to the
\* first character that is not one.
RECURSIVE WordRun(_, _)
WordRun(line, p) ==
    IF p > Len(line) THEN ""
    ELSE IF line[p] = LETTER THEN LETTER \o WordRun(line, p + 1)
    ELSE WordHead(line[p])

\* func_match.group(2): the name at the leftmost `func`, which is the identifier
\* of the occurrence together with the word characters that follow it; the
\* identifier createEvent is followed by a parenthesis.
FuncName(line) ==
    IF HasFunc(line)
    THEN LET k == CHOOSE j \in 1..Len(line) :
                      /\ line[j] \in FuncOccurrences
                      /\ \A m \in 1..(j - 1) : line[m] \notin FuncOccurrences
         IN  CASE line[k] = FUNC -> "f" \o WordRun(line, k + 1)
               [] line[k] = CREATE -> "createEvent"
               [] line[k] = BEST -> "findBestMatchingCategory" \o WordRun(line, k + 1)
    ELSE ""

\* 'class ChatViewModel' in line
HasClass(line) == \E k \in 1..Len(line) : line[k] = CLASS

\* check_class_closure: line.strip() and not line.strip().startswith('//')
IsCode(line) == Strip(line) # <<>> /\ ~IsCommentLine(line)

\* find_class_end: both kinds of literals are stripped before the braces are counted.
NetBracesBoth(line) ==
    LET clean_line == StripLiterals(StripLiterals(line, QUOTE), APOS)
    IN  Count(clean_line, LBRACE) - Count(clean_line, RBRACE)

\* The reference classifier and matcher over one whole line, then its end.  For the
\* line-by-line scripts a brace's position is its line.
RECURSIVE GhostScan(_, _, _, _)
GhostScan(g, line, ln, p) ==
    IF p > Len(line) THEN GhostEndLine(g)
    ELSE GhostScan(GhostObserve(g, line[p],
                                IF p < Len(line) THEN line[p + 1] ELSE EOL,
                                <<ln>>),
                   line, ln, p + 1)

GhostLine(g, line, ln) == GhostScan(g, line, ln, 1)

\* The classifier's state at each character of a line.
RECURSIVE LexTrace(_, _, _)
LexTrace(r, line, p) ==
    IF p > Len(line) THEN <<>>
    ELSE <<r>> \o LexTrace(RefStep(r, line[p],
                                   IF p < Len(line) THEN line[p + 1] ELSE EOL),
                           line, p + 1)

\* The classifier's states at the brace characters of a line.
BracePlaces(r, line) ==
    {LexTrace(r, line, 1)[k].st : k \in {j \in 1..Len(line) : line[j] \in {LBRACE, RBRACE}}}

\* What a script's tests see of a line: the net brace counts the regular-expression
\* counters compute and the results of the tests made on the line.  Two lines that
\* agree on all of these take a script through the same steps.  lex holds, for each
\* state the classifier can be in when the line starts, its state after the line
\* and its states at the line's braces.
LineFacts(line) ==
    [net |-> NetBraces(line), net_both |-> NetBracesBoth(line),
     comment |-> IsCommentLine(line), func |-> HasFunc(line),
     class |-> HasClass(line), brace |-> Count(line, LBRACE) > 0,
     blank |-> Strip(line) = <<>>, code |-> IsCode(line),
     closer |-> Strip(line) = <<RBRACE>>,
     lex |-> [st \in {"Code", "Str", "BlockC"} |->
                LET r == [st |-> st, pend |-> ""]
                IN  [after |-> GhostLine([GhostInit EXCEPT !.lex = r], line, 0).lex,
                     places |-> BracePlaces(r, line)]]]

\* The classifier alone over one whole line: what carries over to the next line.
GhostLexLine(g, f) == [g EXCEPT !.lex = f.lex[g.lex.st].after]

\* The history variable `last`: what the line just read holds.
Seen(g, f) ==
    [net |-> f.net, comment |-> f.comment, func |-> f.func, class |-> f.class,
     brace |-> f.brace, closer |-> f.closer, places |-> f.lex[g.lex.st].places]

\* The record f with the name n added to it.
WithName(f, n) ==
    [k \in DOMAIN f \cup {"name"} |-> IF k = "name" THEN n ELSE f[k]]

NoLine == [net |-> 0, comment |-> FALSE, func |-> FALSE, class |-> FALSE,
           brace |-> FALSE, closer |-> FALSE, places |-> {}]

\* ------------------------------------------------------------- analyze_structure
AS == "analyze_structure"

StructLines == LinesOver({LBRACE, RBRACE, QUOTE, SLASH, FUNC})
\* analyze_structure also takes the function's name from the line.
StructFacts(line) == WithName(LineFacts(line), FuncName(line))
StructInputs == {StructFacts(line) : line \in StructLines}

\* The "nest" files: lines of braces, function openings and comment lines, which
\* take the count above the nesting threshold and keep it there.
NestLines == {<<LBRACE, LBRACE, LBRACE>>, <<LBRACE>>, <<RBRACE>>, <<FUNC, LBRACE>>,
              <<SLASH, SLASH>>}

\* The "many" files: every line holds an issue or two.
IssueLines == {<<RBRACE>>, <<FUNC, LBRACE, RBRACE, RBRACE>>}

StructDraw ==
    CASE shape = "nest" -> {StructFacts(line) : line \in NestLines}
      [] shape = "many" -> {StructFacts(line) : line \in IssueLines}
      [] OTHER -> StructInputs

StructLimit ==
    CASE shape = "nest" -> MaxNestLines
      [] shape = "many" -> MaxIssueLines
      [] OTHER -> MaxTextLines

QuickCloseLines == 3
DeepNesting == 5

\* One iteration of the first loop of analyze_structure over a line holding f, the
\* (i+1)-th of the file, with i = lines_read.

\* A record for every declaration line.
StructPushesEveryDeclaration(f) == f.func

StructPushes(f) == f.func /\ f.brace

StructStackPushed(f) ==
    IF StructPushes(f)
    THEN Append(function_stack,
                [name |-> f.name, line |-> lines_read + 1, start_depth |-> brace_count])
    ELSE function_stack

\* A counter that stops at zero.
StructCountClamped(f) == IF brace_count + f.net < 0 THEN 0 ELSE brace_count + f.net

StructCount(f) == brace_count + f.net

\* A function closed only once the count is below its starting depth.
StructClosesStrict(f) ==
    LET st == StructStackPushed(f)
    IN  st # <<>> /\ StructCount(f) < st[Len(st)].start_depth

StructCloses(f) ==
    LET st == StructStackPushed(f)
    IN  st # <<>> /\ StructCount(f) <= st[Len(st)].start_depth

\* Deep only on the line that takes the count over the threshold.
StructDeepOnCrossing(f) == brace_count <= DeepNesting /\ StructCount(f) > DeepNesting

StructDeep(f) == StructCount(f) > DeepNesting

StructIssues(f) ==
    LET st == StructStackPushed(f)
        closed_func == st[Len(st)]
        i1 == IF StructCloses(f) /\ lines_read - closed_func.line < QuickCloseLines
              THEN Append(issues, [kind |-> "quick", line |-> lines_read + 1,
                                   name |-> closed_func.name])
              ELSE issues
        i2 == IF StructCount(f) < 0
              THEN Append(i1, [kind |-> "extra", line |-> lines_read + 1])
              ELSE i1
    IN  IF StructDeep(f)
        THEN Append(i2, [kind |-> "deep", line |-> lines_read + 1,
                         depth |-> StructCount(f)])
        ELSE i2

AnalyzeLine ==
    /\ prog = AS /\ pc = "scan" /\ lines_read < StructLimit
    /\ \E f \in StructDraw :
        /\ ref' = GhostLexLine(ref, f)
        /\ last' = WithName(Seen(ref, f), f.name)
        /\ depths' = Append(depths, IF f.comment THEN brace_count
                                     ELSE StructCount(f))
        /\ IF f.comment
           THEN UNCHANGED structVars
           ELSE LET st == StructStackPushed(f)
                IN  /\ brace_count' = StructCount(f)
                    /\ function_stack' = IF StructCloses(f)
                                         THEN SubSeq(st, 1, Len(st) - 1) ELSE st
                    /\ issues' = StructIssues(f)
                    /\ closed' = IF StructCloses(f)
                                 THEN Append(closed,
                                             [name |-> st[Len(st)].name,
                                              line |-> st[Len(st)].line,
                                              start_depth |-> st[Len(st)].start_depth,
                                              end |-> lines_read + 1])
                                 ELSE closed
    /\ lines_read' = lines_read + 1
    /\ UNCHANGED <<prog, shape, text, pc, scanVars, depth, out, closureVars, classEndVars,
                   function_starts, scopeVars>>

\* After the loop: every function left on the stack is reported, then the issues
\* are printed.
NeverClosed(stack) ==
    [k \in 1..Len(stack) |-> [kind |-> "unclosed", line |-> stack[k].line,
                               name |-> stack[k].name]]

\* The functions never closed, ahead of the issues of the loop.
ReportedIssuesUnclosedFirst == NeverClosed(function_stack) \o issues

ReportedIssues == issues \o NeverClosed(function_stack)

\* issues[:20]
ShowIssues == 20

\* Every issue is shown.
ShownIssuesAll(all) == all

ShownIssues(all) == SubSeq(all, 1, Min(Len(all), ShowIssues))

\* What lines 60-66 print: the final count, the number of issues, the issues
\* shown and the number of those left out.
StructReport(all) ==
    <<[kind |-> "final", count |-> brace_count],
      [kind |-> "found", count |-> Len(all)]>>
    \o [k \in 1..Len(ShownIssues(all)) |-> [kind |-> "issue",
                                             issue |-> ShownIssues(all)[k]]]
    \o (IF Len(all) > ShowIssues
        THEN <<[kind |-> "more", count |-> Len(all) - ShowIssues]>>
        ELSE << >>)

\* The second loop (lines 68-85) prints nothing for a file of no more than 101
\* lines that holds no class declaration.
AnalyzeFinish ==
    /\ prog = AS /\ pc = "scan"
    /\ pc' = "done"
    /\ issues' = ReportedIssues
    /\ out' = StructReport(ReportedIssues)
    /\ UNCHANGED <<prog, shape, text, ref, scanVars, lines_read, depth, last, depths,
                   brace_count, function_stack, closed, closureVars, classEndVars,
                   function_starts, scopeVars>>

\* ------------------------------------------------------------- find_extra_braces
FEB == "find_extra_braces"

ExtraLines == LinesOver({LBRACE, RBRACE, QUOTE, SLASH})

ExtraBracesLine ==
    /\ prog = FEB /\ pc = "scan" /\ lines_read < MaxTextLines
    /\ \E line \in ExtraLines :
        /\ ref' = GhostLine(ref, line, lines_read + 1)
        /\ last' = Seen(ref, LineFacts(line))
        /\ depth' = depth + NetBraces(line)
        /\ depths' = Append(depths, depth')
        /\ out' = IF depth' < 0
                  THEN Append(out, [kind |-> "extra", line |-> lines_read + 1,
                                    old |-> depth, new |-> depth'])
                  ELSE out
    /\ lines_read' = lines_read + 1
    /\ UNCHANGED <<prog, shape, text, pc, scanVars, structVars, closureVars, classEndVars,
                   function_starts, scopeVars>>

ExtraBracesFinish ==
    /\ prog = FEB /\ pc = "scan"
    /\ pc' = "done"
    /\ UNCHANGED <<prog, shape, text, ref, scanVars, lineVars, structVars, closureVars,
                   classEndVars, function_starts, scopeVars>>

\* ------------------------------------------------------------- check_class_closure
CCC == "check_class_closure"

\* The greatest number of lines of a file of check_class_closure or
\* find_class_end.
ClassLimit == IF shape = "window" THEN MaxWindowLines ELSE MaxClassLines

ClosureLines == ShortLinesOver({LBRACE, RBRACE, QUOTE, SLASH, CLASS})
ClosureInputs == {LineFacts(line) : line \in ClosureLines}

\* The "window" files: the class opens on the first line and closes on the
\* second; empty lines, code lines and comment lines follow.
ClosureWindowLines == {<< >>, <<LETTER>>, <<SLASH, SLASH>>}

ClosureDraw(n) ==
    IF shape = "window"
    THEN CASE n = 0 -> {LineFacts(<<CLASS, LBRACE>>)}
           [] n = 1 -> {LineFacts(<<RBRACE>>)}
           [] OTHER -> {LineFacts(line) : line \in ClosureWindowLines}
    ELSE ClosureInputs

\* lines[i+1:i+10]
ClosureStop == 10

\* One iteration of the loop, up to the `break` taken when the class closes.
ClosureLine ==
    /\ prog = CCC /\ pc = "scan" /\ lines_read < ClassLimit
    /\ \E f \in ClosureDraw(lines_read) :
        LET old_depth == depth
            new_depth == depth + f.net
            started == class_started \/ f.class
            out1 == IF f.class
                    THEN Append(out, [kind |-> "start", line |-> lines_read + 1,
                                      depth |-> depth])
                    ELSE out
            closes == started /\ new_depth = 0 /\ old_depth > 0
        IN  /\ ref' = GhostLexLine(ref, f)
            /\ last' = Seen(ref, f)
            /\ depths' = Append(depths, new_depth)
            /\ class_started' = started
            /\ class_line' = IF f.class THEN lines_read + 1 ELSE class_line
            /\ depth' = new_depth
            /\ out' = IF closes
                      THEN Append(out1, [kind |-> "close", line |-> lines_read + 1])
                      ELSE out1
            /\ pc' = IF closes THEN "trail" ELSE pc
    /\ lines_read' = lines_read + 1
    /\ UNCHANGED <<prog, shape, text, scanVars, structVars, trail, classEndVars,
                   function_starts, scopeVars>>

\* The lines of the file after the line that closed the class: lines[i+1:].
ClosureTrail ==
    /\ prog = CCC /\ pc = "trail" /\ lines_read < ClassLimit
    /\ \E f \in ClosureDraw(lines_read) :
        /\ ref' = GhostLexLine(ref, f)
        /\ last' = Seen(ref, f)
        /\ trail' = Append(trail, [line |-> lines_read + 1,
                                   blank |-> f.blank,
                                   code |-> f.code])
    /\ lines_read' = lines_read + 1
    /\ UNCHANGED <<prog, shape, text, pc, scanVars, depth, out, depths, structVars,
                   class_started, class_line, classEndVars, function_starts, scopeVars>>

\* lines[i+1:i+10]: the lines that are looked at.
TrailWindow == SubSeq(trail, 1, Min(Len(trail), ClosureStop - 1))

\* The warning and the listing of the non-blank lines that follow the class.
TrailWarning ==
    IF \E k \in 1..Len(TrailWindow) : TrailWindow[k].code
    THEN <<[kind |-> "trailing"]>>
         \o [k \in 1..Len(SelectSeq(TrailWindow, LAMBDA t : ~t.blank)) |->
                [kind |-> "after",
                 line |-> SelectSeq(TrailWindow, LAMBDA t : ~t.blank)[k].line]]
    ELSE <<>>

ClosureFinish ==
    /\ prog = CCC /\ pc \in {"scan", "trail"}
    /\ pc' = "done"
    /\ out' = IF pc = "trail" THEN out \o TrailWarning ELSE out
    /\ UNCHANGED <<prog, shape, text, ref, scanVars, lines_read, depth, last, depths,
                   structVars, closureVars, classEndVars, function_starts, scopeVars>>

\* ------------------------------------------------------------- find_class_end
FCE == "find_class_end"

ClassEndLines == ShortLinesOver({LBRACE, RBRACE, QUOTE, FUNC, CLASS})
ClassEndInputs == {LineFacts(line) : line \in ClassEndLines}

\* None: no line has number 0, and class_start_depth is read only once
\* class_start_line is set.
None == 0

\* range(i+1, min(i+10, len(lines)))
LookaheadStop == 10

\* The "window" files: the class declaration on the first line, then empty lines
\* and function declarations, so that the depth is back at the class's depth on
\* every later line and only the look-ahead decides.
WindowLines == {<< >>, <<FUNC>>}

WindowInputs(n) ==
    IF n = 0 THEN {LineFacts(<<CLASS>>)} ELSE {LineFacts(line) : line \in WindowLines}

\* The lines the file may hold at index n (0-based), and its greatest length.
ClassEndDraw(n) == IF shape = "window" THEN WindowInputs(n) ELSE ClassEndInputs

\* len(lines) is reached: the lines read by the loop and by the look-ahead are
\* all the file has.
AtEnd == eof \/ lines_read + Len(ahead) >= ClassLimit

\* One iteration of the loop, up to the test of line 29.  The line is the next
\* of the file: the first of those the look-ahead has read already (ahead), or a
\* new one.  When the depth is back at the class's, the look-ahead follows.
ClassEndLine ==
    /\ prog = FCE /\ pc = "scan"
    /\ \E f \in (IF ahead # << >> THEN {Head(ahead)}
                 ELSE IF AtEnd THEN {} ELSE ClassEndDraw(lines_read)) :
        LET starts == f.class /\ class_start_line = None
            start_line == IF starts THEN lines_read + 1 ELSE class_start_line
            start_depth == IF starts THEN depth ELSE class_start_depth
            new_depth == depth + f.net_both
            back == /\ start_line # None
                    /\ new_depth = start_depth
                    /\ lines_read > start_line
        IN  /\ ref' = GhostLexLine(ref, f)
            /\ last' = Seen(ref, f)
            /\ depths' = Append(depths, new_depth)
            /\ class_start_line' = start_line
            /\ class_start_depth' = start_depth
            /\ depth' = new_depth
            /\ out' = IF starts
                      THEN Append(out, [kind |-> "start", line |-> lines_read + 1])
                      ELSE out
            /\ pc' = IF back THEN "look" ELSE pc
    /\ ahead' = IF ahead # << >> THEN Tail(ahead) ELSE ahead
    /\ looked' = 0
    /\ lines_read' = lines_read + 1
    /\ UNCHANGED <<prog, shape, text, scanVars, structVars, closureVars, eof, function_starts,
                   scopeVars>>

\* for j in range(i+1, min(i+10, len(lines))): the number of lines it visits.
LookaheadLines == LookaheadStop - 1

\* The look-ahead of lines 32-42, one line of it at a time: `looked` lines after
\* line i+1 = lines_read have been examined.  A line holding `func ` gives the
\* warning and the loop goes on; the end of the range gives the class end and
\* `break`.
ClassEndLook ==
    /\ prog = FCE /\ pc = "look"
    /\ \/ /\ looked < LookaheadLines
          /\ \E f \in (IF looked < Len(ahead) THEN {ahead[looked + 1]}
                       ELSE IF AtEnd THEN {}
                       ELSE ClassEndDraw(lines_read + Len(ahead))) :
               /\ ahead' = IF looked < Len(ahead) THEN ahead ELSE Append(ahead, f)
               /\ IF f.func
                  THEN /\ out' = Append(out, [kind |-> "warning", line |-> lines_read])
                       /\ looked' = 0
                       /\ pc' = "scan"
                  ELSE /\ out' = out
                       /\ looked' = looked + 1
                       /\ pc' = pc
          /\ eof' = eof
       \/ /\ \/ looked >= LookaheadLines
             \/ looked >= Len(ahead)
          /\ eof' = IF looked >= LookaheadLines THEN eof ELSE TRUE
          /\ out' = Append(out, [kind |-> "end", line |-> lines_read])
          /\ pc' = "ended"
          /\ UNCHANGED <<ahead, looked>>
    /\ UNCHANGED <<prog, shape, text, ref, scanVars, lines_read, depth, last, depths,
                   structVars, closureVars, class_start_line, class_start_depth,
                   function_starts, scopeVars>>

\* After `break` the file still holds the lines the loop did not reach.
ClassEndRest ==
    /\ prog = FCE /\ pc = "ended" /\ ~AtEnd
    /\ \E f \in ClassEndDraw(lines_read + Len(ahead)) : ahead' = Append(ahead, f)
    /\ UNCHANGED <<prog, shape, text, pc, ref, scanVars, lineVars, structVars, closureVars,
                   class_start_line, class_start_depth, eof, looked, function_starts,
                   scopeVars>>

\* The last line of the file is a lone closing brace.
LastCloser == IF ahead # << >> THEN ahead[Len(ahead)].closer ELSE last.closer

\* After the loop, by running out of lines or by `break`: the final depth is
\* printed and the file is walked backwards from its last line.  When the last of
\* two or more lines is a lone closing brace, lines[i+1] is read past the end of
\* the file and the script stops with an IndexError.
ClassEndFinish ==
    /\ prog = FCE
    /\ \/ pc = "scan" /\ ahead = << >>
       \/ pc = "ended"
    /\ pc' = IF lines_read + Len(ahead) >= 2 /\ LastCloser THEN "crashed" ELSE "done"
    /\ eof' = TRUE
    /\ UNCHANGED <<prog, shape, text, ref, scanVars, lineVars, structVars, closureVars,
                   class_start_line, class_start_depth, ahead, looked, function_starts,
                   scopeVars>>

\* ------------------------------------------------------------- analyze_nesting
AN == "analyze_nesting"

NestingLines == LinesOver({LBRACE, RBRACE, QUOTE, SLASH, FUNC})
NestingInputs == {LineFacts(line) : line \in NestingLines}

\* if d >= 2
HighDepth == 2

\* open_functions[-10:]
NestingShow == 10

\* 'func ' in line and '{' in line
NestingPushes(f) == f.func /\ f.brace

\* One iteration of the loop.  The warning of lines 20-21 is for lines past
\* index 100 only.
NestingLine ==
    /\ prog = AN /\ pc = "scan" /\ lines_read < MaxTextLines
    /\ \E f \in NestingInputs :
        /\ ref' = GhostLexLine(ref, f)
        /\ last' = Seen(ref, f)
        /\ function_starts' = IF NestingPushes(f)
                               THEN Append(function_starts,
                                           [line |-> lines_read + 1, depth |-> depth])
                               ELSE function_starts
        /\ depth' = depth + f.net
        /\ depths' = Append(depths, depth')
    /\ lines_read' = lines_read + 1
    /\ UNCHANGED <<prog, shape, text, pc, scanVars, out, structVars, closureVars,
                   classEndVars, scopeVars>>

\* open_functions: the functions that start at depth 2 or more.
OpenFunctions == SelectSeq(function_starts, LAMBDA t : t.depth >= HighDepth)

\* `for line_no, depth, func in open_functions[-10:]` binds the module's
\* variable depth: after the loop depth is the starting depth of the last
\* function listed; with nothing to list it is the depth after the last line.
DepthAfterListing ==
    IF OpenFunctions # << >>
    THEN OpenFunctions[Len(OpenFunctions)].depth
    ELSE depth

\* After the loop: the functions that start at depth 2 or more, the last 10 of
\* them, and "Final depth", which prints the variable the listing has bound.
NestingFinish ==
    /\ prog = AN /\ pc = "scan"
    /\ pc' = "done"
    /\ depth' = DepthAfterListing
    /\ out' = [k \in 1..Len(LastN(OpenFunctions, NestingShow)) |->
                  [kind |-> "high",
                   line |-> LastN(OpenFunctions, NestingShow)[k].line,
                   depth |-> LastN(OpenFunctions, NestingShow)[k].depth]]
              \o <<[kind |-> "final", depth |-> DepthAfterListing]>>
    /\ UNCHANGED <<prog, shape, text, ref, scanVars, lines_read, last, depths,
                   structVars, closureVars, classEndVars, function_starts, scopeVars>>

\* ------------------------------------------------------------- check_function_scope
CFS == "check_function_scope"

ScopeLines == ShortLinesOver({LBRACE, RBRACE, CLASS, CREATE, BEST})

\* The "window" files: the class opens on the first line; closing and opening
\* braces and the two functions follow.
ScopeWindowLines == {<<RBRACE>>, <<LBRACE>>, <<CREATE>>, <<BEST>>}

\* What the tests of check_function_scope see of a line; the braces are counted
\* in the line as it is.
ScopeFacts(line) ==
    [create |-> \E k \in 1..Len(line) : line[k] = CREATE,
     best |-> \E k \in 1..Len(line) : line[k] = BEST,
     class |-> HasClass(line),
     net |-> Count(line, LBRACE) - Count(line, RBRACE)]

ScopeDraw(n) ==
    IF shape = "window"
    THEN IF n = 0 THEN {ScopeFacts(<<CLASS, LBRACE>>)}
         ELSE {ScopeFacts(line) : line \in ScopeWindowLines}
    ELSE {ScopeFacts(line) : line \in ScopeLines}

ScopeLimit == IF shape = "window" THEN MaxScopeLines ELSE MaxClassLines

\* i > class_start + 10
ScopeSkip == 10

\* One line of the file, in both loops: the first loop (lines 9-13) looks for the
\* two functions in every line, the second (lines 23-32) counts braces until its
\* `break` (pc = "ended").  first_back is a history variable: the first line
\* after the class declaration after which depth is the initial depth (0: none).
ScopeLine ==
    /\ prog = CFS /\ pc \in {"scan", "ended"} /\ lines_read < ScopeLimit
    /\ \E f \in ScopeDraw(lines_read) :
        /\ create_event_line' = IF f.create THEN lines_read + 1 ELSE create_event_line
        /\ find_best_line' = IF f.best THEN lines_read + 1 ELSE find_best_line
        /\ IF pc = "ended"
           THEN UNCHANGED <<pc, depth, class_start, class_end, initial_depth,
                            first_back>>
           ELSE LET start == IF f.class THEN lines_read + 1 ELSE class_start
                    initial == IF f.class THEN depth ELSE initial_depth
                    new_depth == depth + f.net
                    back == start # None /\ new_depth = initial
                    ends == back /\ lines_read > start + ScopeSkip
                IN  /\ class_start' = start
                    /\ initial_depth' = initial
                    /\ depth' = new_depth
                    /\ class_end' = IF ends THEN lines_read + 1 ELSE class_end
                    /\ pc' = IF ends THEN "ended" ELSE pc
                    /\ first_back' = IF f.class THEN 0
                                      ELSE IF back /\ first_back = 0
                                      THEN lines_read + 1
                                      ELSE first_back
    /\ lines_read' = lines_read + 1
    /\ UNCHANGED <<prog, shape, text, ref, scanVars, out, last, depths, structVars,
                   closureVars, classEndVars, function_starts>>

\* class_start <= line <= class_end: a comparison with None raises a TypeError;
\* the second comparison is made only when the first is true.
InsideRaises(line) ==
    class_start = None \/ (class_start <= line /\ class_end = None)

Inside(line) == class_start <= line /\ line <= class_end

\* After the loops: the lines found are printed, then, when both functions were
\* found, whether each is inside the class.
ScopeFinish ==
    /\ prog = CFS /\ pc \in {"scan", "ended"}
    /\ LET found == <<[kind |-> "create", line |-> create_event_line],
                      [kind |-> "best", line |-> find_best_line],
                      [kind |-> "start", line |-> class_start],
                      [kind |-> "end", line |-> class_end]>>
           compared == create_event_line # None /\ find_best_line # None
       IN  IF ~compared
           THEN out' = found /\ pc' = "done"
           ELSE IF InsideRaises(create_event_line)
           THEN out' = found /\ pc' = "crashed"
           ELSE IF InsideRaises(find_best_line)
           THEN /\ out' = Append(found, [kind |-> "inside",
                                         value |-> Inside(create_event_line)])
                /\ pc' = "crashed"
           ELSE /\ out' = found \o <<[kind |-> "inside",
                                       value |-> Inside(create_event_line)],
                                      [kind |-> "inside",
                                       value |-> Inside(find_best_line)]>>
                /\ pc' = "done"
    /\ UNCHANGED <<prog, shape, text, ref, scanVars, lines_read, depth, last, depths,
                   structVars, closureVars, classEndVars, function_starts, scopeVars>>

\* The "line" files of find_brace_mismatches: one line, known from the start
\* (text), so that what the scanner makes of it can be set against what the
\* regex counters make of the same line.
GivenLines == LinesOver(Alphabet)

\* ------------------------------------------------------------- specification
Shapes(p) ==
    CASE p = FBM -> {"mixed", "braces", "line"}
      [] p = AS -> {"mixed", "nest", "many"}
      [] p \in {CCC, FCE, CFS} -> {"mixed", "window"}
      [] OTHER -> {"mixed"}

InitOf(progs) ==
    /\ prog \in progs
    /\ shape \in Shapes(prog)
    /\ text \in (IF shape = "line" THEN GivenLines ELSE {<< >>})
    /\ pc = "scan"
    /\ ref = GhostInit
    /\ line_num = 0
    /\ i = 0
    /\ cur = EOL
    /\ in_string = FALSE
    /\ escaped = FALSE
    /\ brace_stack = <<>>
    /\ errors = <<>>
    /\ report = <<>>
    /\ lines_read = 0
    /\ depth = 0
    /\ out = <<>>
    /\ last = NoLine
    /\ depths = <<>>
    /\ brace_count = 0
    /\ function_stack = <<>>
    /\ issues = <<>>
    /\ closed = <<>>
    /\ class_started = FALSE
    /\ class_line = 0
    /\ trail = <<>>
    /\ class_start_line = None
    /\ class_start_depth = None
    /\ ahead = << >>
    /\ eof = FALSE
    /\ looked = 0
    /\ function_starts = << >>
    /\ create_event_line = None
    /\ find_best_line = None
    /\ class_start = None
    /\ class_end = None
    /\ initial_depth = None
    /\ first_back = 0

NextScan == ScanChar \/ SkipChar \/ NextLine \/ Finish
NextStruct == AnalyzeLine \/ AnalyzeFinish
NextExtra == ExtraBracesLine \/ ExtraBracesFinish
NextClosure == ClosureLine \/ ClosureTrail \/ ClosureFinish
NextClassEnd == ClassEndLine \/ ClassEndLook \/ ClassEndRest \/ ClassEndFinish
NextNesting == NestingLine \/ NestingFinish
NextScope == ScopeLine \/ ScopeFinish

Init == InitOf({FBM, AS, FEB, CCC, FCE, AN, CFS})
Next == NextScan \/ NextStruct \/ NextExtra \/ NextClosure \/ NextClassEnd
           \/ NextNesting \/ NextScope

\* Every script.
Spec == Init /\ [][Next]_vars
\* One script at a time.
SpecScan == InitOf({FBM}) /\ [][NextScan]_vars
SpecStruct == InitOf({AS}) /\ [][NextStruct]_vars
SpecExtra == InitOf({FEB}) /\ [][NextExtra]_vars
SpecClosure == InitOf({CCC}) /\ [][NextClosure]_vars
SpecClassEnd == InitOf({FCE}) /\ [][NextClassEnd]_vars
\* The scanner and the line-level counter of analyze_structure.
SpecDepth == InitOf({FBM, AS}) /\ [][NextScan \/ NextStruct]_vars
SpecNesting == InitOf({AN}) /\ [][NextNesting]_vars
SpecScope == InitOf({CFS}) /\ [][NextScope]_vars
\* The two scripts that record function declarations.
SpecRecords == InitOf({AS, AN}) /\ [][NextStruct \/ NextNesting]_vars
\* The two scripts that keep scope records.
SpecScopes == InitOf({AS, FCE}) /\ [][NextStruct \/ NextClassEnd]_vars

\* ------------------------------------------------------------- properties
\* C1: when every structurally significant opening brace of the input is matched
\* and there is no unmatched closing one (braces in string literals and comments
\* not counted), find_brace_mismatches ends with no extra-closing-brace report, no
\* unclosed-brace listing and an empty brace stack.
C1_WellFormedInputIsClean ==
    (prog = FBM /\ pc = "done" /\ ref.stack = <<>> /\ ref.extra = <<>>)
        => (errors = <<>> /\ report = <<>> /\ brace_stack = <<>>)

\* C2 (as stated): depth is never negative, in the stack-based matcher and in the
\* line-level counter brace_count of analyze_structure.
C2_DepthNeverNegative ==
    /\ prog = FBM => Len(brace_stack) >= 0
    /\ prog = AS => brace_count >= 0

\* C2 (amended): in find_brace_mismatches a closing brace read outside a string
\* while the stack is empty is reported and leaves the stack empty, and nothing
\* else is reported as an extra closing brace.  In analyze_structure the count is
\* not held at zero: every line that is not a comment line adds its opening braces
\* less its closing ones to brace_count, and such a line is reported as an extra
\* closing brace exactly when it leaves brace_count below zero; a comment line
\* changes nothing.
C2_EmptyStackStaysEmptyCountGoesNegative ==
    [][ /\ (prog = FBM /\ pc = "scan" /\ i' = i + 1 /\ cur = RBRACE
              /\ ~escaped /\ ~in_string /\ brace_stack = <<>>)
            => (brace_stack' = <<>> /\ errors' = Append(errors, line_num))
        /\ (prog = FBM /\ errors' # errors)
            => (cur = RBRACE /\ brace_stack = <<>> /\ ~in_string)
        /\ (prog = AS /\ lines_read' = lines_read + 1 /\ ~last'.comment)
            => /\ brace_count' = brace_count + last'.net
               /\ brace_count' < 0
                    <=> /\ Len(issues') > Len(issues)
                        /\ issues'[Len(issues')].kind = "extra"
                        /\ issues'[Len(issues')].line = lines_read'
        /\ (prog = AS /\ lines_read' = lines_read + 1 /\ last'.comment)
            => (brace_count' = brace_count /\ issues' = issues)
      ]_vars

\* analyze_structure has read a line that left brace_count below zero and has
\* reported it.
C2_CountBelowZero ==
    /\ prog = AS /\ brace_count < 0 /\ ~last.comment /\ last.net < 0
    /\ issues # <<>> /\ issues[Len(issues)].kind = "extra"

\* C3: when the input holds exactly one unmatched closing brace, exactly one
\* extra-closing-brace report is made, for the line of that brace, by
\* find_brace_mismatches and by find_extra_braces, whatever follows it.
C3_OneExtraBraceOneReport ==
    /\ (prog = FBM /\ pc = "done" /\ Len(ref.extra) = 1)
          => errors = <<ref.extra[1][1]>>
    /\ (prog = FEB /\ pc = "done" /\ Len(ref.extra) = 1)
          => (Len(out) = 1 /\ out[1].line = ref.extra[1][1])

\* C4: when the input holds exactly one unmatched opening brace, the brace stack
\* of find_brace_mismatches ends holding exactly the entry of that brace, line and
\* column, and exactly that one brace is listed as unclosed.
C4_OneUnclosedBraceOneEntry ==
    (prog = FBM /\ pc = "done" /\ Len(ref.stack) = 1)
        => (brace_stack = ref.stack /\ report = ref.stack)

\* C5 (as stated): at end of input one unclosed-brace line is listed for every
\* entry left on the stack, from the most recently opened to the least.
C5_EveryEntryInnermostFirst ==
    (prog = FBM /\ pc = "done")
        => /\ Len(report) = Len(brace_stack)
           /\ \A k \in 1..Len(report) : report[k] = brace_stack[Len(brace_stack) - k + 1]

\* C5 (amended): at end of input the listing holds the last ShowLast entries of
\* the stack (all of them when there are no more than ShowLast), in the order they
\* were opened, the most recently opened one last; older entries are not listed.
C5_LastTenInOpeningOrder ==
    (prog = FBM /\ pc = "done")
        => /\ Len(report) = (IF Len(brace_stack) <= ShowLast THEN Len(brace_stack)
                                                             ELSE ShowLast)
           /\ \A k \in 1..Len(report) :
                  report[k] = brace_stack[Len(brace_stack) - Len(report) + k]

\* The scan has ended with more than ShowLast braces open.
C5_MoreThanTenOpen ==
    prog = FBM /\ pc = "done" /\ Len(brace_stack) > ShowLast /\ Len(report) = ShowLast

\* C6: a brace inside a string literal never changes depth: the scanner neither
\* pushes, pops nor reports at a brace character classified as inside a string
\* literal, and a line all of whose braces are inside string literals leaves the
\* depth of the scripts that strip literals with a regular expression unchanged.
C6_StringBracesDoNotCount ==
    [][ /\ (prog = FBM /\ i' = i + 1 /\ cur \in {LBRACE, RBRACE} /\ ref.lex.st = "Str")
            => (brace_stack' = brace_stack /\ errors' = errors)
        /\ (prog \in {CCC, FEB, FCE} /\ lines_read' = lines_read + 1
              /\ last'.places = {"Str"})
            => depth' = depth
        /\ (prog = AS /\ lines_read' = lines_read + 1 /\ last'.places = {"Str"})
            => brace_count' = brace_count
      ]_vars

\* C7: a brace inside a line comment never changes depth: the scanner neither
\* pushes, pops nor reports at a brace character classified as inside a line
\* comment, and a line all of whose braces are inside a line comment leaves the
\* depth of analyze_structure and of check_class_closure unchanged.
C7_LineCommentBracesDoNotCount ==
    [][ /\ (prog = FBM /\ i' = i + 1 /\ cur \in {LBRACE, RBRACE} /\ ref.lex.st = "LineC")
            => (brace_stack' = brace_stack /\ errors' = errors)
        /\ (prog = CCC /\ lines_read' = lines_read + 1 /\ last'.places = {"LineC"})
            => depth' = depth
        /\ (prog = AS /\ lines_read' = lines_read + 1 /\ last'.places = {"LineC"})
            => brace_count' = brace_count
      ]_vars

\* C8: from a block-comment opener met in code to its terminator, on the opening
\* line and on every later line, a brace leaves the brace stack of
\* find_brace_mismatches unchanged and is not reported.
C8_BlockCommentBracesDoNotCount ==
    [][ (prog = FBM /\ i' = i + 1 /\ cur \in {LBRACE, RBRACE} /\ ref.lex.st = "BlockC")
            => (brace_stack' = brace_stack /\ errors' = errors)
      ]_vars

\* C9: every scope record that has an end line starts before it ends, and its end
\* line is the first line after the declaration line after which the depth is
\* back at the depth recorded at the declaration: the class of find_class_end and
\* the functions of analyze_structure.
C9_EndIsFirstReturnAfterStart ==
    /\ prog = FCE
          => \A k \in 1..Len(out) :
                out[k].kind = "end"
                  => /\ class_start_line < out[k].line
                     /\ depths[out[k].line] = class_start_depth
                     /\ \A j \in (class_start_line + 1)..(out[k].line - 1) :
                            depths[j] # class_start_depth
    /\ prog = AS
          => \A k \in 1..Len(closed) :
                /\ closed[k].line < closed[k].end
                /\ depths[closed[k].end] = closed[k].start_depth
                /\ \A j \in (closed[k].line + 1)..(closed[k].end - 1) :
                       depths[j] # closed[k].start_depth

\* C10 (as stated): a declaration whose braces open and close on its own line is
\* resolved on that line without any diagnostic: analyze_structure closes the
\* function there and records no issue, find_class_end takes the line for a
\* possible end of the class (its look-ahead decides).
C10_SameLineResolvedSilently ==
    [][ /\ (prog = AS /\ lines_read' = lines_read + 1 /\ ~last'.comment
              /\ last'.func /\ last'.brace /\ brace_count' = brace_count)
            => /\ closed' # closed
               /\ closed'[Len(closed')].line = lines_read'
               /\ closed'[Len(closed')].end = lines_read'
               /\ issues' = issues
        /\ (prog = FCE /\ lines_read' = lines_read + 1 /\ class_start_line = None
              /\ last'.class /\ last'.brace /\ depth' = depth)
            => pc' = "look"
      ]_vars

\* C10 (amended): analyze_structure resolves a function whose braces open and
\* close on its declaration line on that line, leaving the function stack as it
\* was, and always records for it the issue that the function might be empty or
\* missing its body; find_class_end never reports the end of the class on the
\* line that declares it.
C10_SameLineResolvedWithIssue ==
    [][ /\ (prog = AS /\ lines_read' = lines_read + 1 /\ ~last'.comment
              /\ last'.func /\ last'.brace /\ brace_count' = brace_count)
            => /\ closed' = Append(closed, [name |-> last'.name, line |-> lines_read',
                                            start_depth |-> brace_count,
                                            end |-> lines_read'])
               /\ function_stack' = function_stack
               /\ \E k \in (Len(issues) + 1)..Len(issues') :
                      /\ issues'[k].kind = "quick"
                      /\ issues'[k].line = lines_read'
        /\ prog = FCE
            => \A k \in 1..Len(out') :
                  out'[k].kind = "end" => out'[k].line > class_start_line'
      ]_vars

\* analyze_structure has just read a function declaration whose braces open and
\* close on the line, and has closed it there.
C10_FunctionOnOneLine ==
    /\ prog = AS /\ lines_read >= 1 /\ ~last.comment /\ last.func /\ last.brace
    /\ last.net = 0
    /\ closed # <<>>
    /\ closed[Len(closed)].line = lines_read /\ closed[Len(closed)].end = lines_read

\* C11: when find_class_end reports line L as the end of the class, none of the
\* ten lines after L (or of those there are) declares a function, and when it
\* warns of an early close at L, one of them does.
C11_VerdictByTenLinesAfter ==
    [][ prog = FCE =>
          /\ (Len(out') > Len(out) /\ out'[Len(out')].kind = "warning")
                => \E j \in 1..Min(LookaheadStop, Len(ahead')) : ahead'[j].func
          /\ (out' # << >> /\ out'[Len(out')].kind = "end")
                => \A j \in 1..Min(LookaheadStop, Len(ahead')) : ~ahead'[j].func
      ]_vars

\* C12: once check_class_closure has found the line that closes the class, it
\* warns of trailing code exactly when some line anywhere in the rest of the
\* input is not empty and not a line comment.
C12_TrailingCodeAnywhereAfter ==
    (prog = CCC /\ pc = "done" /\ \E k \in 1..Len(out) : out[k].kind = "close")
        => ((\E k \in 1..Len(out) : out[k].kind = "trailing")
               <=> (\E k \in 1..Len(trail) : trail[k].code))

\* The issues the step has added.
NewIssues == SubSeq(issues', Len(issues) + 1, Len(issues'))

\* C13 (as stated): analyze_structure records the deep-nesting issue once for
\* each crossing of the threshold: for a line that takes the count from the
\* threshold or below to above it, and for no other line.
C13_DeepOncePerCrossing ==
    [][ (prog = AS /\ lines_read' = lines_read + 1)
          => ((\E k \in 1..Len(NewIssues) : NewIssues[k].kind = "deep")
                 <=> (brace_count <= DeepNesting /\ brace_count' > DeepNesting))
      ]_vars

\* C13 (amended): analyze_structure records the deep-nesting issue for every
\* line it counts (every line that is not a comment line) that leaves the count
\* above the threshold, also when the count was above it before the line; the
\* issue carries the line's number and the count after the line.
C13_DeepOnEveryLineAbove ==
    [][ (prog = AS /\ lines_read' = lines_read + 1)
          => /\ \A k \in 1..Len(NewIssues) :
                   NewIssues[k].kind = "deep"
                     => /\ NewIssues[k].line = lines_read'
                        /\ NewIssues[k].depth = brace_count'
                        /\ k = Len(NewIssues)
             /\ (\E k \in 1..Len(NewIssues) : NewIssues[k].kind = "deep")
                   <=> (~last'.comment /\ brace_count' > DeepNesting)
      ]_vars

\* Two lines in a row have been reported as deep: the count was above the
\* threshold before the second of them.
C13_DeepTwiceInARow ==
    /\ prog = AS
    /\ \E k \in 1..(Len(issues) - 1) :
          /\ issues[k].kind = "deep" /\ issues[k + 1].kind = "deep"
          /\ issues[k + 1].line = issues[k].line + 1
          /\ issues[k + 1].depth >= issues[k].depth

\* The place of an issue in the order of presentation of the claim: extra
\* closing braces, then unclosed scopes, then heuristic findings.
PresentationRank(issue) ==
    CASE issue.kind = "extra" -> 1
      [] issue.kind = "unclosed" -> 2
      [] OTHER -> 3

\* C14 (as stated): in the issues analyze_structure reports, every extra closing
\* brace comes before every unclosed scope, and every unclosed scope before every
\* heuristic finding.
C14_OrderedByKind ==
    (prog = AS /\ pc = "done")
        => \A j, k \in 1..Len(issues) :
              j < k => PresentationRank(issues[j]) <= PresentationRank(issues[k])

\* C14 (amended): analyze_structure reports its issues in the order it found
\* them: the issues of the loop by line, those of one line in the order
\* closed-too-quickly, then extra closing brace or deep nesting; the functions
\* never closed come after all of these, in the order of their declaration lines.
C14_OrderedByDiscovery ==
    (prog = AS /\ pc = "done")
        => \A j, k \in 1..Len(issues) :
              j < k =>
                IF issues[k].kind = "unclosed"
                THEN issues[j].kind = "unclosed" => issues[j].line < issues[k].line
                ELSE /\ issues[j].kind # "unclosed"
                     /\ issues[j].line <= issues[k].line
                     /\ issues[j].line = issues[k].line
                          => (issues[j].kind = "quick" /\ issues[k].kind # "quick")

\* A heuristic finding has been reported ahead of an extra closing brace, and a
\* function never closed after both.
C14_HeuristicBeforeExtraBeforeUnclosed ==
    /\ prog = AS /\ pc = "done"
    /\ \E j, k, l \in 1..Len(issues) :
          /\ j < k /\ k < l
          /\ issues[j].kind = "quick"
          /\ issues[k].kind = "extra"
          /\ issues[l].kind = "unclosed"

\* The issues among the lines printed.
PrintedIssues == SelectSeq(out, LAMBDA r : r.kind = "issue")

\* C15: with n issues collected, analyze_structure shows min(n, 20) of them, the
\* first 20 in their order, and when n is above 20 one more line with the number
\* n - 20 of issues not shown.
C15_FirstTwentyThenSummary ==
    (prog = AS /\ pc = "done")
        => /\ Len(PrintedIssues) = Min(Len(issues), ShowIssues)
           /\ \A k \in 1..Len(PrintedIssues) : PrintedIssues[k].issue = issues[k]
           /\ \A j, k \in 1..Len(out) :
                 (out[j].kind = "issue" /\ out[k].kind = "more") => j < k
           /\ IF Len(issues) > ShowIssues
              THEN /\ out[Len(out)] = [kind |-> "more",
                                       count |-> Len(issues) - ShowIssues]
                   /\ Cardinality({k \in 1..Len(out) : out[k].kind = "more"}) = 1
              ELSE \A k \in 1..Len(out) : out[k].kind # "more"

\* More than 20 issues were collected and the report is printed.
C15_MoreThanTwentyIssues ==
    prog = AS /\ pc = "done" /\ Len(issues) > ShowIssues

\* C16 (as stated): a declaration line gets a scope record also when its opening
\* brace is not on the line: reading a line that declares a function leaves a
\* record of that line, in analyze_structure on the function stack or among the
\* resolved records, in analyze_nesting among the function starts.
C16_EveryDeclarationGetsARecord ==
    [][ /\ (prog = AS /\ lines_read' = lines_read + 1 /\ ~last'.comment /\ last'.func)
            => \/ \E k \in 1..Len(function_stack') :
                     function_stack'[k].line = lines_read'
               \/ \E k \in 1..Len(closed') : closed'[k].line = lines_read'
        /\ (prog = AN /\ lines_read' = lines_read + 1 /\ last'.func)
            => \E k \in 1..Len(function_starts') :
                   function_starts'[k].line = lines_read'
      ]_vars

\* C16 (amended): a line gets a record exactly when it holds both a function
\* declaration and an opening brace; the record carries the line's number and
\* the depth before the line.  A declaration without a brace on its line leaves
\* no record, and no later line gets a record for it.  In analyze_structure a
\* counted line tests one record only, the one on top of the stack once the
\* line's own record is pushed: that record is resolved exactly when the line
\* leaves brace_count at or below its start_depth, and the records below it stay
\* where they are whatever their start_depth is.  A comment line changes neither
\* the stack nor the resolved records, and a resolved record is never changed.
\* analyze_nesting only ever appends.
C16_RecordOnlyWithBraceOnTheLine ==
    [][ /\ (prog = AS /\ lines_read' = lines_read + 1 /\ last'.comment)
            => (function_stack' = function_stack /\ closed' = closed)
        /\ (prog = AS /\ lines_read' = lines_read + 1 /\ ~last'.comment)
            => LET pushes == last'.func /\ last'.brace
                   st == IF pushes
                         THEN Append(function_stack,
                                     [name |-> last'.name, line |-> lines_read',
                                      start_depth |-> brace_count])
                         ELSE function_stack
                   resolves == /\ st # << >>
                               /\ brace_count' <= st[Len(st)].start_depth
               IN  IF resolves
                   THEN /\ function_stack' = SubSeq(st, 1, Len(st) - 1)
                        /\ closed' = Append(closed,
                                            [name |-> st[Len(st)].name,
                                             line |-> st[Len(st)].line,
                                             start_depth |-> st[Len(st)].start_depth,
                                             end |-> lines_read'])
                   ELSE /\ function_stack' = st
                        /\ closed' = closed
        /\ (prog = AN /\ lines_read' = lines_read + 1)
            => function_starts' =
                  IF last'.func /\ last'.brace
                  THEN Append(function_starts, [line |-> lines_read', depth |-> depth])
                  ELSE function_starts
      ]_vars

\* analyze_structure has read a function declaration without a brace on its
\* line, and there is no record of it.
C16_DeclarationWithoutBraceNoRecord ==
    /\ prog = AS /\ pc = "scan"
    /\ lines_read >= 1 /\ ~last.comment /\ last.func /\ ~last.brace
    /\ function_stack = << >> /\ closed = << >>

\* C17: in find_brace_mismatches a backslash starts an escape only inside a string
\* literal: the character after a backslash is skipped only when the backslash
\* was read inside a string.
C17_EscapeOnlyInsideString ==
    [][ (prog = FBM /\ pc = "scan" /\ i' = i + 1 /\ ~escaped /\ escaped')
          => in_string
      ]_vars

\* Position p comes before position q: an earlier line, or the same line and an
\* earlier column.
Before(p, q) == p[1] < q[1] \/ (p[1] = q[1] /\ p[2] < q[2])

\* C18: after every character find_brace_mismatches reads, the entries of the
\* brace stack are in strictly increasing order of (line, column), each entry
\* before the one above it; the stack
\* changes only by a push of the position of an opening brace read outside a
\* string, on top, or by a pop of the top entry at a closing brace read outside a
\* string while the stack is not empty, so that its size is the number of pushes
\* less the number of those pops and its entries are the opening braces not yet
\* popped.  "Outside a string" is what the scanner's own flag in_string says.
C18_StackIsOrderedPositionsOfOpenBraces ==
    [][ (prog = FBM /\ i' = i + 1)
          => /\ \A k \in 1..(Len(brace_stack') - 1) :
                   Before(brace_stack'[k], brace_stack'[k + 1])
             /\ \/ brace_stack' = brace_stack
                \/ /\ brace_stack' = Append(brace_stack, <<line_num, i>>)
                   /\ cur = LBRACE /\ ~in_string /\ ~in_string' /\ pc = "scan"
                \/ /\ brace_stack # << >>
                   /\ brace_stack' = SubSeq(brace_stack, 1, Len(brace_stack) - 1)
                   /\ cur = RBRACE /\ ~in_string /\ ~in_string' /\ pc = "scan"
             /\ (pc = "scan" /\ ~escaped /\ ~in_string /\ pc' = "scan")
                   => /\ cur = LBRACE => Len(brace_stack') = Len(brace_stack) + 1
                      /\ (cur = RBRACE /\ brace_stack # << >>)
                            => Len(brace_stack') = Len(brace_stack) - 1
      ]_vars

\* In a line of braces only, the stack holds the first and the fourth brace: the
\* second was pushed and the third popped it.
C18_TwoEntriesLeftAfterAPop ==
    /\ prog = FBM /\ shape = "braces" /\ pc = "scan"
    /\ brace_stack = << <<1, 0>>, <<1, 3>> >>

\* C19: when check_function_scope has found both functions and compares their
\* lines with the class, class_start and class_end are line numbers; and when
\* the depth was back at the class's initial depth after some line after the
\* declaration, class_end is the first such line.
C19_ClassEndSetWhenCompared ==
    (prog = CFS /\ pc \in {"done", "crashed"})
        => /\ (create_event_line # None /\ find_best_line # None)
                => (class_start # None /\ class_end # None)
           /\ (class_start # None /\ first_back # 0) => class_end = first_back

\* C20: after every line analyze_structure has read, every record left on the
\* function stack has a start depth strictly below the brace count, also when
\* the line closed several nested functions; so a function is on the stack at the
\* end of input, and reported as never closed, only if the count after no line
\* from its declaration line on was at its start depth or below.
C20_StackRecordsStartBelowCount ==
    prog = AS
        => /\ pc = "scan"
                => \A k \in 1..Len(function_stack) :
                       function_stack[k].start_depth < brace_count
           /\ pc = "done"
                => \A k \in 1..Len(function_stack) :
                       \A j \in function_stack[k].line..Len(depths) :
                           depths[j] > function_stack[k].start_depth

\* line[i:i+2] == '//' somewhere in the line.
HasSlashes(line) ==
    \E k \in 1..(Len(line) - 1) : line[k] = SLASH /\ line[k + 1] = SLASH

\* C21: for a line with no backslash, no `//` and an even number of double
\* quotes that find_brace_mismatches has read to its end without meeting a
\* closing brace on an empty stack, the size the brace stack has gained is the net
\* count of the regex counters of check_class_closure and find_extra_braces:
\* the opening less the closing braces left once every "[^"]*" match is
\* replaced by the empty literal.
C21_RegexCountIsScannerCount ==
    (/\ prog = FBM /\ shape = "line" /\ line_num = 1 /\ cur = EOL
     /\ Count(text, BACKSLASH) = 0
     /\ ~HasSlashes(text)
     /\ Count(text, QUOTE) % 2 = 0
     /\ errors = << >>)
        => Len(brace_stack) = NetBraces(text)

\* The scanner is at the end of such a line, which holds a brace inside a string
\* literal, and a brace outside that it has pushed.
C21_LineWithBraceInLiteral ==
    /\ prog = FBM /\ shape = "line" /\ line_num = 1 /\ cur = EOL /\ pc = "scan"
    /\ Count(text, BACKSLASH) = 0 /\ ~HasSlashes(text)
    /\ Count(text, QUOTE) = 2
    /\ errors = << >>
    /\ Count(text, LBRACE) = 2
    /\ Len(brace_stack) = 1

====
